---- MODULE Spec2Model ----
(***************************************************************************)
(* Model of simplechar.c: a character device with one shared buffer,       *)
(* guarded by a mutex, an atomic open counter and two operation counters.  *)
(* Each caller (thread) runs the file operations step by step; the steps   *)
(* follow the statements of device_read, device_write, device_open,        *)
(* device_release, device_ioctl and simplechar_proc_show.                  *)
(*                                                                         *)
(* The buffer is a sequence: C index i is TLA+ index i + 1.                *)
(***************************************************************************)
EXTENDS Integers, Sequences, FiniteSets, TLC

\* ---------------------------------------------------------------- bounds
NumThreads == 2
MaxCapacity == 2
MaxLen == 2
MaxOffset == 2
MaxByte == 1
MaxOps == 2

\* ------------------------------------------------------ program constants
BUFFER_SIZE_MAX == 4096
ERESTARTSYS == 512
EFAULT == 14
ENOSPC == 28

Threads == 1..NumThreads
Byte == 0..MaxByte
NoOwner == 0

VARIABLES
    buffer,        \* simple_dev->buffer, the storage
    buffer_len,    \* simple_dev->buffer_len, the valid length
    buffer_size,   \* simple_dev->buffer_size, the capacity
    mutex,         \* simple_dev->mutex: NoOwner or the thread that holds it
    open_count,    \* simple_dev->open_count
    read_count,    \* simple_dev->read_count
    write_count,   \* simple_dev->write_count
    pc,            \* per thread: the statement it is at
    opened,        \* per thread: it holds an open file on the device
    len,           \* per thread: the len argument of the call in progress
    offset,        \* per thread: *offset of the call in progress
    ubuf,          \* per thread: the user buffer (source of a write, bytes delivered by a read)
    bytes,         \* per thread: the local bytes_read / bytes_written
    ret,           \* per thread: the value the last call returned
    seen,          \* per thread: the values a status report or close summary has read so far
    snap,          \* history: per thread, the device state when it took the mutex
    size0,         \* history: the capacity set at construction
    hwm,           \* history: max of offset + bytes_written over the writes that returned a count
    lastW0,        \* history: the bytes of the last complete write at offset 0, if no write came after
    param,         \* the module parameters buffer_size and debug_level
    mpc,           \* the statement simplechar_init or simplechar_exit is at
    held,          \* the resources simplechar_init has acquired and nothing has released
    init_ret,      \* the value simplechar_init returned
    stale,         \* an operation has run against a handle that was freed
    param0,        \* history: the module parameters as given at load
    acq,           \* history: per resource, how many times it was acquired
    rel,           \* history: per resource, how many times it was released
    sess           \* history: the reads of the session that thread Reader holds

dev == <<buffer, buffer_len, buffer_size, mutex, open_count, read_count, write_count>>
call == <<pc, opened, len, offset, ubuf, bytes, ret, seen>>
hist == <<snap, size0, hwm, lastW0>>
life == <<param, mpc, held, init_ret, stale, param0, acq, rel>>
vars == <<dev, call, hist, life, sess>>

\* ---------------------------------------------------------------- helpers
Min(a, b) == IF a < b THEN a ELSE b
Max(a, b) == IF a > b THEN a ELSE b

Zeros(n) == [i \in 1..n |-> 0]

\* every user buffer of at most n bytes
UserData(n) == UNION {[1..k -> Byte] : k \in 0..n}

\* a value lastW0 takes when no write at offset 0 is current
NoWrite == <<MaxByte + 1>>

NoSeen == [len |-> 0, rc |-> 0, wc |-> 0]
NoSnap == [buffer |-> <<>>, buffer_len |-> 0, read_count |-> 0, write_count |-> 0, offset |-> 0]
TakeSnap(t) == [buffer |-> buffer, buffer_len |-> buffer_len, read_count |-> read_count,
                write_count |-> write_count, offset |-> offset[t]]

\* copy_from_user(buf + off, src, n) that stops after k bytes: the k bytes
\* arrive, the rest of the n-byte destination is zeroed
copy_from_user(buf, off, src, n, k) ==
    [i \in 1..Len(buf) |->
        IF off < i /\ i <= off + k THEN src[i - off]
        ELSE IF off + k < i /\ i <= off + n THEN 0
        ELSE buf[i]]

\* copy_to_user(dst, buf + off, n) that stops after k bytes: what the user gets
copy_to_user(buf, off, k) == SubSeq(buf, off + 1, off + k)

\* bytes_read = min(len, buffer_len - *offset), line 189
read_bytes(l, off, blen) == Min(l, blen - off)

\* the write takes the length as asked, without the clamp of line 235
write_bytes_unclamped(l, off, size) == l

\* the clamp keeps one byte too few
write_bytes_short(l, off, size) == Min(l, size - off - 1)

\* bytes_written = min(len, buffer_size - *offset), line 235
write_bytes(l, off, size) == Min(l, size - off)

InRead == {"r_lock", "r_eof", "r_copy", "r_update", "r_out"}
InWrite == {"w_lock", "w_chk", "w_copy", "w_len", "w_cnt", "w_out"}
Locked == {"r_eof", "r_copy", "r_update", "r_out", "w_chk", "w_copy", "w_len", "w_cnt", "w_out"}

\* what simplechar_init acquires, in the order it acquires it
Resources == <<"simple_dev", "buffer", "dev_num", "cdev", "simple_class", "simple_device", "proc_entry">>
ResourceSet == {Resources[i] : i \in DOMAIN Resources}

\* the thread whose successive reads sess follows
Reader == 1
NoSess == [pos |-> 0, rem |-> -1, blen |-> 0, moved |-> 0]

\* ------------------------------------------------------------------- Init
\* the state simplechar_init leaves: zeroed storage, all counters 0
Init ==
    /\ buffer_size \in 1..MaxCapacity
    /\ buffer = Zeros(buffer_size)
    /\ buffer_len = 0
    /\ mutex = NoOwner
    /\ open_count = 0
    /\ read_count = 0
    /\ write_count = 0
    /\ pc = [t \in Threads |-> "idle"]
    /\ opened = [t \in Threads |-> FALSE]
    /\ len = [t \in Threads |-> 0]
    /\ offset = [t \in Threads |-> 0]
    /\ ubuf = [t \in Threads |-> <<>>]
    /\ bytes = [t \in Threads |-> 0]
    /\ ret = [t \in Threads |-> 0]
    /\ seen = [t \in Threads |-> NoSeen]
    /\ snap = [t \in Threads |-> NoSnap]
    /\ size0 = buffer_size
    /\ hwm = 0
    /\ lastW0 = NoWrite
    /\ param = [buffer_size |-> buffer_size, debug_level |-> 1]
    /\ param0 = param
    /\ mpc = "live"
    /\ held = ResourceSet
    /\ init_ret = 0
    /\ stale = FALSE
    /\ acq = [r \in ResourceSet |-> 1]
    /\ rel = [r \in ResourceSet |-> 0]
    /\ sess = NoSess

\* ------------------------------------------------------------ open, close
\* atomic_set(&open_count, 1) for atomic_inc
device_open_set(t) ==
    /\ pc[t] = "idle"
    /\ ~opened[t]
    /\ open_count' = 1
    /\ opened' = [opened EXCEPT ![t] = TRUE]
    /\ ret' = [ret EXCEPT ![t] = 0]
    /\ UNCHANGED <<buffer, buffer_len, buffer_size, mutex, read_count, write_count>>
    /\ UNCHANGED <<pc, len, offset, ubuf, bytes, seen, hist>>

\* the open is not counted
device_open_uncounted(t) ==
    /\ pc[t] = "idle"
    /\ ~opened[t]
    /\ opened' = [opened EXCEPT ![t] = TRUE]
    /\ ret' = [ret EXCEPT ![t] = 0]
    /\ UNCHANGED <<dev, pc, len, offset, ubuf, bytes, seen, hist>>

device_open(t) ==
    /\ pc[t] = "idle"
    /\ ~opened[t]
    /\ open_count' = open_count + 1
    /\ opened' = [opened EXCEPT ![t] = TRUE]
    /\ ret' = [ret EXCEPT ![t] = 0]
    /\ UNCHANGED <<buffer, buffer_len, buffer_size, mutex, read_count, write_count>>
    /\ UNCHANGED <<pc, len, offset, ubuf, bytes, seen, hist>>

\* atomic_dec, line 154
device_release(t) ==
    /\ pc[t] = "idle"
    /\ opened[t]
    /\ open_count' = open_count - 1
    /\ opened' = [opened EXCEPT ![t] = FALSE]
    /\ seen' = [seen EXCEPT ![t] = NoSeen]
    /\ pc' = [pc EXCEPT ![t] = "c_rc"]
    /\ UNCHANGED <<buffer, buffer_len, buffer_size, mutex, read_count, write_count>>
    /\ UNCHANGED <<len, offset, ubuf, bytes, ret, hist>>

\* the summary reads read_count, then write_count, without the mutex
release_read_count(t) ==
    /\ pc[t] = "c_rc"
    /\ seen' = [seen EXCEPT ![t].rc = read_count]
    /\ pc' = [pc EXCEPT ![t] = "c_wc"]
    /\ UNCHANGED <<dev, opened, len, offset, ubuf, bytes, ret, hist>>

release_write_count(t) ==
    /\ pc[t] = "c_wc"
    /\ seen' = [seen EXCEPT ![t].wc = write_count]
    /\ ret' = [ret EXCEPT ![t] = 0]
    /\ pc' = [pc EXCEPT ![t] = "done"]
    /\ UNCHANGED <<dev, opened, len, offset, ubuf, bytes, hist>>

\* ------------------------------------------------------------------ ioctl
device_ioctl(t) ==
    /\ pc[t] = "idle"
    /\ opened[t]
    /\ ret' = [ret EXCEPT ![t] = 0]
    /\ pc' = [pc EXCEPT ![t] = "done"]
    /\ UNCHANGED <<dev, opened, len, offset, ubuf, bytes, seen, hist>>

\* ------------------------------------------------------------------- read
\* the caller enters device_read with a length and an offset
read_call(t) ==
    /\ pc[t] = "idle"
    /\ opened[t]
    /\ read_count + Cardinality({u \in Threads : pc[u] \in InRead}) < MaxOps
    /\ \E l \in 0..MaxLen, o \in 0..MaxOffset :
        /\ len' = [len EXCEPT ![t] = l]
        /\ offset' = [offset EXCEPT ![t] = o]
    /\ ubuf' = [ubuf EXCEPT ![t] = <<>>]
    /\ bytes' = [bytes EXCEPT ![t] = 0]
    /\ ret' = [ret EXCEPT ![t] = 0]
    /\ pc' = [pc EXCEPT ![t] = "r_lock"]
    /\ UNCHANGED <<dev, opened, seen, hist>>

\* the arguments and locals of a call that returns before it took the mutex
\* go out of scope; *offset is as the caller passed it
locals_end(t) ==
    /\ len' = [len EXCEPT ![t] = 0]
    /\ ubuf' = [ubuf EXCEPT ![t] = <<>>]
    /\ bytes' = [bytes EXCEPT ![t] = 0]

\* the call's arguments and locals go out of scope when it returns
call_ends(t) ==
    /\ len' = [len EXCEPT ![t] = 0]
    /\ offset' = [offset EXCEPT ![t] = 0]
    /\ ubuf' = [ubuf EXCEPT ![t] = <<>>]
    /\ bytes' = [bytes EXCEPT ![t] = 0]

\* mutex_lock_interruptible returns 0: the mutex was free and is now held
mutex_acquire(t) ==
    /\ mutex = NoOwner
    /\ mutex' = t
    /\ snap' = [snap EXCEPT ![t] = TakeSnap(t)]

\* mutex_lock_interruptible returns nonzero: a signal arrived while the
\* mutex was held by another thread
mutex_interrupted(t) ==
    /\ mutex # NoOwner
    /\ mutex # t
    /\ UNCHANGED <<mutex, snap>>

\* mutex_unlock
mutex_unlock(t) ==
    /\ mutex' = NoOwner
    /\ snap' = [snap EXCEPT ![t] = NoSnap]

read_lock(t) ==
    /\ pc[t] = "r_lock"
    /\ mutex_acquire(t)
    /\ pc' = [pc EXCEPT ![t] = "r_eof"]
    /\ UNCHANGED <<buffer, buffer_len, buffer_size, open_count, read_count, write_count>>
    /\ UNCHANGED <<opened, len, offset, ubuf, bytes, ret, seen, size0, hwm, lastW0>>

\* the interrupted call leaves through out: and unlocks the mutex it does not hold
read_interrupted_unlocks(t) ==
    /\ pc[t] = "r_lock"
    /\ mutex # NoOwner
    /\ mutex # t
    /\ mutex' = NoOwner
    /\ snap' = snap
    /\ ret' = [ret EXCEPT ![t] = -ERESTARTSYS]
    /\ pc' = [pc EXCEPT ![t] = "done"]
    /\ locals_end(t)
    /\ UNCHANGED <<buffer, buffer_len, buffer_size, open_count, read_count, write_count>>
    /\ UNCHANGED <<opened, offset, seen, size0, hwm, lastW0>>

read_interrupted(t) ==
    /\ pc[t] = "r_lock"
    /\ mutex_interrupted(t)
    /\ ret' = [ret EXCEPT ![t] = -ERESTARTSYS]
    /\ pc' = [pc EXCEPT ![t] = "done"]
    /\ locals_end(t)
    /\ UNCHANGED <<buffer, buffer_len, buffer_size, open_count, read_count, write_count>>
    /\ UNCHANGED <<opened, offset, seen, size0, hwm, lastW0>>

\* at end of data the call returns 0 at once, without the unlock at out:
read_eof_check_returns(t) ==
    /\ pc[t] = "r_eof"
    /\ IF offset[t] >= buffer_len
       THEN /\ pc' = [pc EXCEPT ![t] = "done"]
            /\ ret' = [ret EXCEPT ![t] = 0]
       ELSE /\ pc' = [pc EXCEPT ![t] = "r_copy"]
            /\ ret' = ret
    /\ UNCHANGED <<dev, opened, len, offset, ubuf, bytes, seen, hist>>

\* the end-of-data test with > for >=
read_eof_check_gt(t) ==
    /\ pc[t] = "r_eof"
    /\ pc' = [pc EXCEPT ![t] = IF offset[t] > buffer_len THEN "r_out" ELSE "r_copy"]
    /\ UNCHANGED <<dev, opened, len, offset, ubuf, bytes, ret, seen, hist>>

\* if (*offset >= buffer_len) goto out
read_eof_check(t) ==
    /\ pc[t] = "r_eof"
    /\ pc' = [pc EXCEPT ![t] = IF offset[t] >= buffer_len THEN "r_out" ELSE "r_copy"]
    /\ UNCHANGED <<dev, opened, len, offset, ubuf, bytes, ret, seen, hist>>

\* a faulting copy still moves the offset past the bytes that were delivered
read_copy_fault_advances(t) ==
    /\ pc[t] = "r_copy"
    /\ LET n == read_bytes(len[t], offset[t], buffer_len) IN
        \/ /\ ubuf' = [ubuf EXCEPT ![t] = copy_to_user(buffer, offset[t], n)]
           /\ bytes' = [bytes EXCEPT ![t] = n]
           /\ offset' = offset
           /\ pc' = [pc EXCEPT ![t] = "r_update"]
        \/ \E k \in 0..(n - 1) :
           /\ ubuf' = [ubuf EXCEPT ![t] = copy_to_user(buffer, offset[t], k)]
           /\ bytes' = [bytes EXCEPT ![t] = -EFAULT]
           /\ offset' = [offset EXCEPT ![t] = offset[t] + k]
           /\ pc' = [pc EXCEPT ![t] = "r_out"]
    /\ UNCHANGED <<dev, opened, len, ret, seen, hist>>

\* bytes_read = min(len, buffer_len - *offset); copy_to_user
read_copy(t) ==
    /\ pc[t] = "r_copy"
    /\ LET n == read_bytes(len[t], offset[t], buffer_len) IN
        \/ /\ ubuf' = [ubuf EXCEPT ![t] = copy_to_user(buffer, offset[t], n)]
           /\ bytes' = [bytes EXCEPT ![t] = n]
           /\ pc' = [pc EXCEPT ![t] = "r_update"]
        \/ \E k \in 0..(n - 1) :
           /\ ubuf' = [ubuf EXCEPT ![t] = copy_to_user(buffer, offset[t], k)]
           /\ bytes' = [bytes EXCEPT ![t] = -EFAULT]
           /\ pc' = [pc EXCEPT ![t] = "r_out"]
    /\ UNCHANGED <<dev, opened, len, offset, ret, seen, hist>>

\* the offset is not advanced
read_update_no_advance(t) ==
    /\ pc[t] = "r_update"
    /\ read_count' = read_count + 1
    /\ pc' = [pc EXCEPT ![t] = "r_out"]
    /\ UNCHANGED <<buffer, buffer_len, buffer_size, mutex, open_count, write_count>>
    /\ UNCHANGED <<opened, len, offset, ubuf, bytes, ret, seen, hist>>

\* the offset moves back by the bytes delivered
read_update_rewinds(t) ==
    /\ pc[t] = "r_update"
    /\ offset' = [offset EXCEPT ![t] = offset[t] - bytes[t]]
    /\ read_count' = read_count + 1
    /\ pc' = [pc EXCEPT ![t] = "r_out"]
    /\ UNCHANGED <<buffer, buffer_len, buffer_size, mutex, open_count, write_count>>
    /\ UNCHANGED <<opened, len, ubuf, bytes, ret, seen, hist>>

\* the read is not counted
read_update_uncounted(t) ==
    /\ pc[t] = "r_update"
    /\ offset' = [offset EXCEPT ![t] = offset[t] + bytes[t]]
    /\ pc' = [pc EXCEPT ![t] = "r_out"]
    /\ UNCHANGED <<dev, opened, len, ubuf, bytes, ret, seen, hist>>

\* *offset += bytes_read; read_count++
read_update(t) ==
    /\ pc[t] = "r_update"
    /\ offset' = [offset EXCEPT ![t] = offset[t] + bytes[t]]
    /\ read_count' = read_count + 1
    /\ pc' = [pc EXCEPT ![t] = "r_out"]
    /\ UNCHANGED <<buffer, buffer_len, buffer_size, mutex, open_count, write_count>>
    /\ UNCHANGED <<opened, len, ubuf, bytes, ret, seen, hist>>

\* out: mutex_unlock; return bytes_read
read_out(t) ==
    /\ pc[t] = "r_out"
    /\ mutex_unlock(t)
    /\ ret' = [ret EXCEPT ![t] = bytes[t]]
    /\ pc' = [pc EXCEPT ![t] = "done"]
    /\ call_ends(t)
    /\ UNCHANGED <<buffer, buffer_len, buffer_size, open_count, read_count, write_count>>
    /\ UNCHANGED <<opened, seen, size0, hwm, lastW0>>

\* ------------------------------------------------------------------ write
\* the caller enters device_write with a source buffer and an offset
write_call(t) ==
    /\ pc[t] = "idle"
    /\ opened[t]
    /\ write_count + Cardinality({u \in Threads : pc[u] \in InWrite}) < MaxOps
    /\ \E src \in UserData(MaxLen), o \in 0..MaxOffset :
        /\ ubuf' = [ubuf EXCEPT ![t] = src]
        /\ len' = [len EXCEPT ![t] = Len(src)]
        /\ offset' = [offset EXCEPT ![t] = o]
    /\ bytes' = [bytes EXCEPT ![t] = 0]
    /\ ret' = [ret EXCEPT ![t] = 0]
    /\ pc' = [pc EXCEPT ![t] = "w_lock"]
    /\ UNCHANGED <<dev, opened, seen, hist>>

write_lock(t) ==
    /\ pc[t] = "w_lock"
    /\ mutex_acquire(t)
    /\ pc' = [pc EXCEPT ![t] = "w_chk"]
    /\ UNCHANGED <<buffer, buffer_len, buffer_size, open_count, read_count, write_count>>
    /\ UNCHANGED <<opened, len, offset, ubuf, bytes, ret, seen, size0, hwm, lastW0>>

\* the result of mutex_lock_interruptible is ignored: the write goes on without the mutex
write_interrupted_ignored(t) ==
    /\ pc[t] = "w_lock"
    /\ mutex_interrupted(t)
    /\ pc' = [pc EXCEPT ![t] = "w_chk"]
    /\ UNCHANGED <<buffer, buffer_len, buffer_size, open_count, read_count, write_count>>
    /\ UNCHANGED <<opened, len, offset, ubuf, bytes, ret, seen, size0, hwm, lastW0>>

write_interrupted(t) ==
    /\ pc[t] = "w_lock"
    /\ mutex_interrupted(t)
    /\ ret' = [ret EXCEPT ![t] = -ERESTARTSYS]
    /\ pc' = [pc EXCEPT ![t] = "done"]
    /\ locals_end(t)
    /\ UNCHANGED <<buffer, buffer_len, buffer_size, open_count, read_count, write_count>>
    /\ UNCHANGED <<opened, offset, seen, size0, hwm, lastW0>>

\* the capacity test with > for >=
write_space_check_gt(t) ==
    /\ pc[t] = "w_chk"
    /\ IF offset[t] > buffer_size
       THEN /\ bytes' = [bytes EXCEPT ![t] = -ENOSPC]
            /\ pc' = [pc EXCEPT ![t] = "w_out"]
       ELSE /\ bytes' = bytes
            /\ pc' = [pc EXCEPT ![t] = "w_copy"]
    /\ UNCHANGED <<dev, opened, len, offset, ubuf, ret, seen, hist>>

\* if (*offset >= buffer_size) { bytes_written = -ENOSPC; goto out; }
write_space_check(t) ==
    /\ pc[t] = "w_chk"
    /\ IF offset[t] >= buffer_size
       THEN /\ bytes' = [bytes EXCEPT ![t] = -ENOSPC]
            /\ pc' = [pc EXCEPT ![t] = "w_out"]
       ELSE /\ bytes' = bytes
            /\ pc' = [pc EXCEPT ![t] = "w_copy"]
    /\ UNCHANGED <<dev, opened, len, offset, ubuf, ret, seen, hist>>

\* bytes_written = min(len, buffer_size - *offset); copy_from_user
write_copy(t) ==
    /\ pc[t] = "w_copy"
    /\ LET n == write_bytes(len[t], offset[t], buffer_size) IN
        \/ /\ buffer' = copy_from_user(buffer, offset[t], ubuf[t], n, n)
           /\ bytes' = [bytes EXCEPT ![t] = n]
           /\ pc' = [pc EXCEPT ![t] = "w_len"]
        \/ \E k \in 0..(n - 1) :
           /\ buffer' = copy_from_user(buffer, offset[t], ubuf[t], n, k)
           /\ bytes' = [bytes EXCEPT ![t] = -EFAULT]
           /\ pc' = [pc EXCEPT ![t] = "w_out"]
    /\ lastW0' = NoWrite
    /\ UNCHANGED <<buffer_len, buffer_size, mutex, open_count, read_count, write_count>>
    /\ UNCHANGED <<opened, len, offset, ubuf, ret, seen, snap, size0, hwm>>

\* buffer_len = *offset, without the comparison
new_buffer_len_assigned(off, blen) == off

\* buffer_len is never raised
new_buffer_len_kept(off, blen) == blen

\* the value line 247-249 leaves in buffer_len, given the advanced offset
new_buffer_len(off, blen) == IF off > blen THEN off ELSE blen

\* *offset += bytes_written; if (*offset > buffer_len) buffer_len = *offset
write_update_len(t) ==
    /\ pc[t] = "w_len"
    /\ offset' = [offset EXCEPT ![t] = offset[t] + bytes[t]]
    /\ buffer_len' = new_buffer_len(offset[t] + bytes[t], buffer_len)
    /\ pc' = [pc EXCEPT ![t] = "w_cnt"]
    /\ UNCHANGED <<buffer, buffer_size, mutex, open_count, read_count, write_count>>
    /\ UNCHANGED <<opened, len, ubuf, bytes, ret, seen, hist>>

\* write_count++
write_update_count(t) ==
    /\ pc[t] = "w_cnt"
    /\ write_count' = write_count + 1
    /\ pc' = [pc EXCEPT ![t] = "w_out"]
    /\ UNCHANGED <<buffer, buffer_len, buffer_size, mutex, open_count, read_count>>
    /\ UNCHANGED <<opened, len, offset, ubuf, bytes, ret, seen, hist>>

\* the write returns without mutex_unlock
write_out_keeps_mutex(t) ==
    /\ pc[t] = "w_out"
    /\ mutex = t
    /\ UNCHANGED <<dev, snap>>
    /\ hwm' = hwm
    /\ lastW0' = lastW0
    /\ size0' = size0
    /\ ret' = [ret EXCEPT ![t] = bytes[t]]
    /\ pc' = [pc EXCEPT ![t] = "done"]
    /\ call_ends(t)
    /\ UNCHANGED <<opened, seen>>

\* out: mutex_unlock; return bytes_written
write_out(t) ==
    /\ pc[t] = "w_out"
    /\ mutex_unlock(t)
    /\ ret' = [ret EXCEPT ![t] = bytes[t]]
    /\ pc' = [pc EXCEPT ![t] = "done"]
    /\ hwm' = IF bytes[t] >= 0 THEN Max(hwm, snap[t].offset + bytes[t]) ELSE hwm
    /\ lastW0' = IF bytes[t] = len[t] /\ snap[t].offset = 0 THEN ubuf[t] ELSE lastW0
    /\ call_ends(t)
    /\ UNCHANGED <<buffer, buffer_len, buffer_size, open_count, read_count, write_count>>
    /\ UNCHANGED <<opened, seen, size0>>

\* ----------------------------------------------------------- status report
\* simplechar_proc_show reads the fields one after the other, without the mutex
\* the report starts only when the mutex is free
proc_show_len_locked(t) ==
    /\ pc[t] = "idle"
    /\ mutex = NoOwner
    /\ seen' = [seen EXCEPT ![t] = [NoSeen EXCEPT !.len = buffer_len]]
    /\ pc' = [pc EXCEPT ![t] = "p_open"]
    /\ UNCHANGED <<dev, opened, len, offset, ubuf, bytes, ret, hist>>

proc_show_len(t) ==
    /\ pc[t] = "idle"
    /\ seen' = [seen EXCEPT ![t] = [NoSeen EXCEPT !.len = buffer_len]]
    /\ pc' = [pc EXCEPT ![t] = "p_open"]
    /\ UNCHANGED <<dev, opened, len, offset, ubuf, bytes, ret, hist>>

proc_show_open(t) ==
    /\ pc[t] = "p_open"
    /\ seen' = seen
    /\ pc' = [pc EXCEPT ![t] = "p_rc"]
    /\ UNCHANGED <<dev, opened, len, offset, ubuf, bytes, ret, hist>>

proc_show_read_count(t) ==
    /\ pc[t] = "p_rc"
    /\ seen' = [seen EXCEPT ![t].rc = read_count]
    /\ pc' = [pc EXCEPT ![t] = "p_wc"]
    /\ UNCHANGED <<dev, opened, len, offset, ubuf, bytes, ret, hist>>

proc_show_write_count(t) ==
    /\ pc[t] = "p_wc"
    /\ seen' = [seen EXCEPT ![t].wc = write_count]
    /\ ret' = [ret EXCEPT ![t] = 0]
    /\ pc' = [pc EXCEPT ![t] = "done"]
    /\ UNCHANGED <<dev, opened, len, offset, ubuf, bytes, hist>>

\* ----------------------------------------------------------------- return
\* the caller has its result and is ready for its next call
return(t) ==
    /\ pc[t] = "done"
    /\ pc' = [pc EXCEPT ![t] = "idle"]
    /\ ret' = [ret EXCEPT ![t] = 0]
    /\ seen' = [seen EXCEPT ![t] = NoSeen]
    /\ call_ends(t)
    /\ UNCHANGED <<dev, opened, hist>>

Next ==
    \E t \in Threads :
        \/ device_open(t) /\ UNCHANGED <<life, sess>>
        \/ device_release(t) /\ UNCHANGED <<life, sess>>
        \/ release_read_count(t) /\ UNCHANGED <<life, sess>>
        \/ release_write_count(t) /\ UNCHANGED <<life, sess>>
        \/ device_ioctl(t) /\ UNCHANGED <<life, sess>>
        \/ read_call(t) /\ UNCHANGED <<life, sess>>
        \/ read_lock(t) /\ UNCHANGED <<life, sess>>
        \/ read_interrupted(t) /\ UNCHANGED <<life, sess>>
        \/ read_eof_check(t) /\ UNCHANGED <<life, sess>>
        \/ read_copy(t) /\ UNCHANGED <<life, sess>>
        \/ read_update(t) /\ UNCHANGED <<life, sess>>
        \/ read_out(t) /\ UNCHANGED <<life, sess>>
        \/ write_call(t) /\ UNCHANGED <<life, sess>>
        \/ write_lock(t) /\ UNCHANGED <<life, sess>>
        \/ write_interrupted(t) /\ UNCHANGED <<life, sess>>
        \/ write_space_check(t) /\ UNCHANGED <<life, sess>>
        \/ write_copy(t) /\ UNCHANGED <<life, sess>>
        \/ write_update_len(t) /\ UNCHANGED <<life, sess>>
        \/ write_update_count(t) /\ UNCHANGED <<life, sess>>
        \/ write_out(t) /\ UNCHANGED <<life, sess>>
        \/ proc_show_len(t) /\ UNCHANGED <<life, sess>>
        \/ proc_show_open(t) /\ UNCHANGED <<life, sess>>
        \/ proc_show_read_count(t) /\ UNCHANGED <<life, sess>>
        \/ proc_show_write_count(t) /\ UNCHANGED <<life, sess>>
        \/ return(t) /\ UNCHANGED <<life, sess>>

Spec == Init /\ [][Next]_vars

\* ---------------------------------------------------------------- session
\* One session reads the device through its file position while another
\* thread writes: the reads of thread Reader are issued at the offset the
\* previous read left, as read(2) does with the position of the open file.
Writer == 2

\* device_read is entered with *offset at the position the last read left
session_read(t) ==
    /\ read_call(t)
    /\ offset'[t] = sess.pos

\* the end-of-data test sees buffer_len - *offset bytes remaining
session_eof_check(t) ==
    /\ read_eof_check(t)
    /\ sess' = [sess EXCEPT !.rem = buffer_len - offset[t], !.blen = buffer_len]

\* the read returns and leaves the position at *offset
session_read_out(t) ==
    /\ read_out(t)
    /\ sess' = [sess EXCEPT !.pos = offset[t],
                            !.moved = IF bytes[t] >= 1 THEN @ + 1 ELSE @]

NextSession ==
    \/ \E t \in Threads : device_open(t) /\ UNCHANGED <<life, sess>>
    \/ session_read(Reader) /\ UNCHANGED <<life, sess>>
    \/ read_lock(Reader) /\ UNCHANGED <<life, sess>>
    \/ read_interrupted(Reader) /\ UNCHANGED <<life, sess>>
    \/ session_eof_check(Reader) /\ UNCHANGED life
    \/ read_copy(Reader) /\ UNCHANGED <<life, sess>>
    \/ read_update(Reader) /\ UNCHANGED <<life, sess>>
    \/ session_read_out(Reader) /\ UNCHANGED life
    \/ write_call(Writer) /\ UNCHANGED <<life, sess>>
    \/ write_lock(Writer) /\ UNCHANGED <<life, sess>>
    \/ write_interrupted(Writer) /\ UNCHANGED <<life, sess>>
    \/ write_space_check(Writer) /\ UNCHANGED <<life, sess>>
    \/ write_copy(Writer) /\ UNCHANGED <<life, sess>>
    \/ write_update_len(Writer) /\ UNCHANGED <<life, sess>>
    \/ write_update_count(Writer) /\ UNCHANGED <<life, sess>>
    \/ write_out(Writer) /\ UNCHANGED <<life, sess>>
    \/ \E t \in Threads : return(t) /\ UNCHANGED <<life, sess>>

SpecSession == Init /\ [][NextSession]_vars

\* -------------------------------------------------------------- lifecycle
\* The module from insmod to rmmod: simplechar_init statement by statement,
\* its fail_ labels, simplechar_exit, and one thread that uses the device
\* and the status file whenever they are registered.
EINVAL == 22
ENOMEM == 12

\* the values insmod may give the parameters
ParamSizes == {-1, 0, 1, MaxCapacity, BUFFER_SIZE_MAX + 1}
ParamDebug == {-1, 0, 3, 9}

LifeThreads == {1}

InitLife ==
    /\ param \in [buffer_size : ParamSizes, debug_level : ParamDebug]
    /\ param0 = param
    /\ mpc = "validate"
    /\ held = {}
    /\ init_ret = 0
    /\ stale = FALSE
    /\ acq = [r \in ResourceSet |-> 0]
    /\ rel = [r \in ResourceSet |-> 0]
    /\ sess = NoSess
    /\ buffer = <<>>
    /\ buffer_len = 0
    /\ buffer_size = 0
    /\ mutex = NoOwner
    /\ open_count = 0
    /\ read_count = 0
    /\ write_count = 0
    /\ pc = [t \in Threads |-> "idle"]
    /\ opened = [t \in Threads |-> FALSE]
    /\ len = [t \in Threads |-> 0]
    /\ offset = [t \in Threads |-> 0]
    /\ ubuf = [t \in Threads |-> <<>>]
    /\ bytes = [t \in Threads |-> 0]
    /\ ret = [t \in Threads |-> 0]
    /\ seen = [t \in Threads |-> NoSeen]
    /\ snap = [t \in Threads |-> NoSnap]
    /\ size0 = 0
    /\ hwm = 0
    /\ lastW0 = NoWrite

Acquire(r) ==
    /\ held' = held \cup {r}
    /\ acq' = [acq EXCEPT ![r] = @ + 1]
    /\ rel' = rel

Release(r) ==
    /\ held' = held \ {r}
    /\ rel' = [rel EXCEPT ![r] = @ + 1]
    /\ acq' = acq

\* a statement of init or exit leaves the threads, the histories and, unless
\* it says otherwise, the device fields alone
ModuleStep == UNCHANGED <<call, hist, sess, stale, param0>>

\* buffer_size <= 0 || buffer_size > BUFFER_SIZE_MAX
size_invalid(n) == n <= 0 \/ n > BUFFER_SIZE_MAX

\* the size test lets 0 through
init_validate_zero ==
    /\ mpc = "validate"
    /\ IF param.buffer_size < 0 \/ param.buffer_size > BUFFER_SIZE_MAX
       THEN /\ init_ret' = -EINVAL
            /\ mpc' = "failed"
            /\ param' = param
       ELSE /\ param' = [param EXCEPT !.debug_level = IF @ < 0 \/ @ > 3 THEN 1 ELSE @]
            /\ mpc' = "alloc_dev"
            /\ init_ret' = init_ret
    /\ UNCHANGED <<dev, held, acq, rel>>
    /\ ModuleStep

\* if (buffer_size <= 0 || buffer_size > BUFFER_SIZE_MAX) return -EINVAL;
\* if (debug_level < 0 || debug_level > 3) debug_level = 1;
init_validate ==
    /\ mpc = "validate"
    /\ IF size_invalid(param.buffer_size)
       THEN /\ init_ret' = -EINVAL
            /\ mpc' = "failed"
            /\ param' = param
       ELSE /\ param' = [param EXCEPT !.debug_level = IF @ < 0 \/ @ > 3 THEN 1 ELSE @]
            /\ mpc' = "alloc_dev"
            /\ init_ret' = init_ret
    /\ UNCHANGED <<dev, held, acq, rel>>
    /\ ModuleStep

\* simple_dev = kzalloc(sizeof(struct simplechar_dev)); on failure return -ENOMEM
init_alloc_dev ==
    /\ mpc = "alloc_dev"
    /\ \/ /\ Acquire("simple_dev")
          /\ mpc' = "alloc_buffer"
          /\ init_ret' = init_ret
       \/ /\ UNCHANGED <<held, acq, rel>>
          /\ mpc' = "failed"
          /\ init_ret' = -ENOMEM
    /\ UNCHANGED <<dev, param>>
    /\ ModuleStep

\* simple_dev->buffer = kzalloc(buffer_size); on failure goto fail_buffer
init_alloc_buffer ==
    /\ mpc = "alloc_buffer"
    /\ \/ /\ Acquire("buffer")
          /\ buffer' = Zeros(param.buffer_size)
          /\ mpc' = "fields"
          /\ init_ret' = init_ret
       \/ /\ UNCHANGED <<held, acq, rel, buffer>>
          /\ mpc' = "fail_buffer"
          /\ init_ret' = -ENOMEM
    /\ UNCHANGED <<buffer_len, buffer_size, mutex, open_count, read_count, write_count, param>>
    /\ ModuleStep

\* the fields of simple_dev are set: capacity, length 0, mutex, counters 0
init_fields ==
    /\ mpc = "fields"
    /\ buffer_size' = param.buffer_size
    /\ buffer_len' = 0
    /\ mutex' = NoOwner
    /\ open_count' = 0
    /\ read_count' = 0
    /\ write_count' = 0
    /\ size0' = param.buffer_size
    /\ mpc' = "chrdev"
    /\ UNCHANGED <<buffer, param, held, init_ret, stale, param0, acq, rel>>
    /\ UNCHANGED <<call, snap, hwm, lastW0, sess>>

\* a registration step of init: it acquires r and goes on to next, or
\* fails with ret < 0 and goes to its fail label
init_register(at, r, next, fail) ==
    /\ mpc = at
    /\ \/ /\ Acquire(r)
          /\ mpc' = next
          /\ init_ret' = init_ret
       \/ /\ UNCHANGED <<held, acq, rel>>
          /\ mpc' = fail
          /\ init_ret' = -ENOMEM
    /\ UNCHANGED <<dev, param>>
    /\ ModuleStep

\* alloc_chrdev_region; on failure goto fail_chrdev
init_chrdev == init_register("chrdev", "dev_num", "cdev", "fail_chrdev")

\* cdev_init, cdev_add: from here the device can be opened; on failure goto fail_cdev
init_cdev == init_register("cdev", "cdev", "class", "fail_cdev")

\* class_create; on failure goto fail_class
init_class == init_register("class", "simple_class", "device", "fail_class")

\* device_create; on failure goto fail_device
init_device == init_register("device", "simple_device", "proc", "fail_device")

\* proc_create; a failure is not fatal; return 0
init_proc ==
    /\ mpc = "proc"
    /\ \/ Acquire("proc_entry")
       \/ UNCHANGED <<held, acq, rel>>
    /\ mpc' = "live"
    /\ init_ret' = 0
    /\ UNCHANGED <<dev, param>>
    /\ ModuleStep

\* a statement that gives r back and falls through to the next one
teardown(at, r, next) ==
    /\ mpc = at
    /\ Release(r)
    /\ mpc' = next
    /\ UNCHANGED <<param, init_ret>>
    /\ ModuleStep

\* kfree(simple_dev->buffer): the storage is gone
free_buffer(at, next) ==
    /\ teardown(at, "buffer", next)
    /\ buffer' = <<>>
    /\ UNCHANGED <<buffer_len, buffer_size, mutex, open_count, read_count, write_count>>

\* kfree(simple_dev): the handle and its fields are gone
free_dev(at, next) ==
    /\ teardown(at, "simple_dev", next)
    /\ buffer_len' = 0
    /\ buffer_size' = 0
    /\ mutex' = NoOwner
    /\ open_count' = 0
    /\ read_count' = 0
    /\ write_count' = 0
    /\ UNCHANGED buffer

\* fail_device: class_destroy(simple_class)
fail_device == teardown("fail_device", "simple_class", "fail_class") /\ UNCHANGED dev

\* fail_class: cdev_del(&simple_dev->cdev)
fail_class == teardown("fail_class", "cdev", "fail_cdev") /\ UNCHANGED dev

\* fail_cdev: unregister_chrdev_region
fail_cdev == teardown("fail_cdev", "dev_num", "fail_chrdev") /\ UNCHANGED dev

\* fail_chrdev: kfree(simple_dev->buffer)
fail_chrdev == free_buffer("fail_chrdev", "fail_buffer")

\* fail_buffer: kfree(simple_dev); return ret
fail_buffer == free_dev("fail_buffer", "failed")

\* rmmod: refused while a file on the device is open (fops.owner), then
\* simplechar_exit runs
module_exit ==
    /\ mpc = "live"
    /\ \A t \in Threads : ~opened[t] /\ pc[t] \notin {"c_rc", "c_wc"}
    /\ mpc' = "x_proc"
    /\ UNCHANGED <<dev, param, held, init_ret, acq, rel>>
    /\ ModuleStep

\* if (proc_entry) proc_remove(proc_entry): waits for a report in progress
exit_proc ==
    /\ mpc = "x_proc"
    /\ \A t \in Threads : pc[t] \notin {"p_open", "p_rc", "p_wc"}
    /\ IF "proc_entry" \in held
       THEN Release("proc_entry")
       ELSE UNCHANGED <<held, acq, rel>>
    /\ mpc' = "x_device"
    /\ UNCHANGED <<dev, param, init_ret>>
    /\ ModuleStep

\* device_destroy
exit_device == teardown("x_device", "simple_device", "x_class") /\ UNCHANGED dev

\* class_destroy
exit_class == teardown("x_class", "simple_class", "x_cdev") /\ UNCHANGED dev

\* cdev_del
exit_cdev == teardown("x_cdev", "cdev", "x_region") /\ UNCHANGED dev

\* unregister_chrdev_region
exit_region == teardown("x_region", "dev_num", "x_buffer") /\ UNCHANGED dev

\* kfree(simple_dev->buffer)
exit_buffer == free_buffer("x_buffer", "x_dev")

\* kfree(simple_dev)
exit_dev == free_dev("x_dev", "gone")

\* the device can be opened: the cdev is registered and the module is not
\* being removed
CanOpen == "cdev" \in held /\ mpc \notin {"x_proc", "x_device", "x_class", "x_cdev"}

\* the status file can be opened
CanShow == "proc_entry" \in held

\* what the next statement of thread t dereferences
Touches(t) == IF pc[t] \in {"r_copy", "w_copy"} THEN {"simple_dev", "buffer"} ELSE {"simple_dev"}

\* it is still allocated
Live(t) == Touches(t) \subseteq held

\* what a call may return
AnyRet == {-ERESTARTSYS, -EFAULT, -ENOSPC} \cup (0..MaxLen)

\* thread t, with a file still open or a call in progress, runs a statement
\* that dereferences freed memory: the behaviour is undefined, the call
\* returns anything and the file may or may not survive
stale_use(t) ==
    /\ ~Live(t)
    /\ \/ pc[t] \notin {"idle", "done"}
       \/ pc[t] = "idle" /\ opened[t]
    /\ stale' = TRUE
    /\ pc' = [pc EXCEPT ![t] = "done"]
    /\ \E r \in AnyRet : ret' = [ret EXCEPT ![t] = r]
    /\ \E o \in BOOLEAN : opened' = [opened EXCEPT ![t] = o]
    /\ seen' = [seen EXCEPT ![t] = NoSeen]
    /\ call_ends(t)
    /\ UNCHANGED <<dev, hist, sess, param, mpc, held, init_ret, param0, acq, rel>>

NextLife ==
    \/ init_validate
    \/ init_alloc_dev
    \/ init_alloc_buffer
    \/ init_fields
    \/ init_chrdev
    \/ init_cdev
    \/ init_class
    \/ init_device
    \/ init_proc
    \/ fail_device
    \/ fail_class
    \/ fail_cdev
    \/ fail_chrdev
    \/ fail_buffer
    \/ module_exit
    \/ exit_proc
    \/ exit_device
    \/ exit_class
    \/ exit_cdev
    \/ exit_region
    \/ exit_buffer
    \/ exit_dev
    \/ \E t \in LifeThreads :
        \/ CanOpen /\ device_open(t) /\ UNCHANGED <<life, sess>>
        \/ Live(t) /\ device_release(t) /\ UNCHANGED <<life, sess>>
        \/ Live(t) /\ release_read_count(t) /\ UNCHANGED <<life, sess>>
        \/ Live(t) /\ release_write_count(t) /\ UNCHANGED <<life, sess>>
        \/ device_ioctl(t) /\ UNCHANGED <<life, sess>>
        \/ Live(t) /\ read_call(t) /\ UNCHANGED <<life, sess>>
        \/ Live(t) /\ read_lock(t) /\ UNCHANGED <<life, sess>>
        \/ Live(t) /\ read_eof_check(t) /\ UNCHANGED <<life, sess>>
        \/ Live(t) /\ read_copy(t) /\ UNCHANGED <<life, sess>>
        \/ Live(t) /\ read_update(t) /\ UNCHANGED <<life, sess>>
        \/ Live(t) /\ read_out(t) /\ UNCHANGED <<life, sess>>
        \/ Live(t) /\ write_call(t) /\ UNCHANGED <<life, sess>>
        \/ Live(t) /\ write_lock(t) /\ UNCHANGED <<life, sess>>
        \/ Live(t) /\ write_space_check(t) /\ UNCHANGED <<life, sess>>
        \/ Live(t) /\ write_copy(t) /\ UNCHANGED <<life, sess>>
        \/ Live(t) /\ write_update_len(t) /\ UNCHANGED <<life, sess>>
        \/ Live(t) /\ write_update_count(t) /\ UNCHANGED <<life, sess>>
        \/ Live(t) /\ write_out(t) /\ UNCHANGED <<life, sess>>
        \/ CanShow /\ proc_show_len(t) /\ UNCHANGED <<life, sess>>
        \/ proc_show_open(t) /\ UNCHANGED <<life, sess>>
        \/ proc_show_read_count(t) /\ UNCHANGED <<life, sess>>
        \/ proc_show_write_count(t) /\ UNCHANGED <<life, sess>>
        \/ return(t) /\ UNCHANGED <<life, sess>>
        \/ stale_use(t)

SpecLife == InitLife /\ [][NextLife]_vars

\* ----------------------------------------------------------------- fairness
\* The scheduler runs every runnable thread: a call that holds the mutex
\* takes its next step, and a call that waits for the mutex gets it when it
\* is released (the kernel mutex hands over to its waiters). A caller need
\* not call, and a signal need not arrive.
LockedStep(t) ==
    \/ read_eof_check(t)
    \/ read_copy(t)
    \/ read_update(t)
    \/ read_out(t)
    \/ write_space_check(t)
    \/ write_copy(t)
    \/ write_update_len(t)
    \/ write_update_count(t)
    \/ write_out(t)

LockStep(t) == read_lock(t) \/ write_lock(t)

\* the threads open the device and read and write it
NextFair ==
    \E t \in Threads :
        \/ device_open(t) /\ UNCHANGED <<life, sess>>
        \/ read_call(t) /\ UNCHANGED <<life, sess>>
        \/ read_lock(t) /\ UNCHANGED <<life, sess>>
        \/ read_interrupted(t) /\ UNCHANGED <<life, sess>>
        \/ read_eof_check(t) /\ UNCHANGED <<life, sess>>
        \/ read_copy(t) /\ UNCHANGED <<life, sess>>
        \/ read_update(t) /\ UNCHANGED <<life, sess>>
        \/ read_out(t) /\ UNCHANGED <<life, sess>>
        \/ write_call(t) /\ UNCHANGED <<life, sess>>
        \/ write_lock(t) /\ UNCHANGED <<life, sess>>
        \/ write_interrupted(t) /\ UNCHANGED <<life, sess>>
        \/ write_space_check(t) /\ UNCHANGED <<life, sess>>
        \/ write_copy(t) /\ UNCHANGED <<life, sess>>
        \/ write_update_len(t) /\ UNCHANGED <<life, sess>>
        \/ write_update_count(t) /\ UNCHANGED <<life, sess>>
        \/ write_out(t) /\ UNCHANGED <<life, sess>>
        \/ return(t) /\ UNCHANGED <<life, sess>>

SpecFair ==
    /\ Init
    /\ [][NextFair]_vars
    /\ \A t \in Threads : WF_vars(LockedStep(t) /\ UNCHANGED <<life, sess>>)
    /\ \A t \in Threads : SF_vars(LockStep(t) /\ UNCHANGED <<life, sess>>)

\* ------------------------------------------------------------- properties

\* C1: at most one read or write call is inside the locked section
\* (between a successful mutex_lock_interruptible and mutex_unlock), and
\* that call is the holder of the mutex.
C1_MutualExclusion ==
    \A t, u \in Threads :
        (pc[t] \in Locked /\ pc[u] \in Locked) => (t = u /\ mutex = t)

\* a thread is inside the locked section while the other waits for the mutex
C1_Witness ==
    \E t, u \in Threads :
        /\ t # u
        /\ pc[t] \in {"r_copy", "w_copy"}
        /\ pc[u] \in {"r_lock", "w_lock"}

\* C2: 0 <= buffer_len <= buffer_size in every reachable state, the storage
\* has buffer_size bytes, and buffer_size is the capacity set at construction.
C2_LengthWithinCapacity ==
    /\ 0 <= buffer_len
    /\ buffer_len <= buffer_size
    /\ Len(buffer) = buffer_size
    /\ buffer_size = size0

\* a write that asked for more than fits has filled the buffer to its capacity
C2_Witness ==
    \E t \in Threads :
        /\ pc[t] = "w_cnt"
        /\ len[t] > bytes[t]
        /\ buffer_len = buffer_size

\* C3: after a write of B at offset 0 that returned Len(B), and with no
\* write in between, a read of Len(B) bytes at offset 0 whose copy does
\* not fault returns Len(B) and delivers exactly B.
C3_RoundTrip ==
    \A t \in Threads :
        (/\ pc[t] = "r_out"
         /\ lastW0 # NoWrite
         /\ snap[t].offset = 0
         /\ len[t] = Len(lastW0)
         /\ bytes[t] # -EFAULT)
        => (bytes[t] = Len(lastW0) /\ ubuf[t] = lastW0)

\* a read is about to return the nonzero bytes the last write at offset 0 stored
C3_Witness ==
    \E t \in Threads :
        /\ pc[t] = "r_out"
        /\ lastW0 # NoWrite
        /\ Len(lastW0) = MaxCapacity
        /\ \E i \in 1..Len(lastW0) : lastW0[i] # 0
        /\ snap[t].offset = 0
        /\ len[t] = Len(lastW0)
        /\ bytes[t] = Len(lastW0)
        /\ ubuf[t] = lastW0

\* the storage b0 with the n bytes at C offset off taken from src
Stored(b0, off, src, n) ==
    [i \in 1..Len(b0) |-> IF off < i /\ i <= off + n THEN src[i - off] ELSE b0[i]]

\* C4: a write with offset < capacity whose copy succeeds copies
\* n = min(len, capacity - offset) bytes of the source to storage[offset .. offset+n),
\* changes no other byte, returns n, advances the offset by n and adds 1 to
\* write_count; with capacity 16 a 10-byte write at offset 10 gives n = 6 and
\* leaves buffer_len at 16.
C4_WriteClamped ==
    /\ \A t \in Threads :
        (pc[t] = "w_out" /\ bytes[t] >= 0) =>
            LET off == snap[t].offset
                n == IF len[t] < buffer_size - off THEN len[t] ELSE buffer_size - off
            IN  /\ off < buffer_size
                /\ bytes[t] = n
                /\ buffer = Stored(snap[t].buffer, off, ubuf[t], n)
                /\ offset[t] = off + n
                /\ write_count = snap[t].write_count + 1
                /\ read_count = snap[t].read_count
    /\ write_bytes(10, 10, 16) = 6
    /\ \A blen \in 0..16 : new_buffer_len(10 + write_bytes(10, 10, 16), blen) = 16

\* a write past offset 0 that asked for more than fits is about to return the clamped count
C4_Witness ==
    \E t \in Threads :
        /\ pc[t] = "w_out"
        /\ snap[t].offset > 0
        /\ bytes[t] >= 1
        /\ bytes[t] < len[t]
        /\ \E i \in 1..bytes[t] : ubuf[t][i] # 0

\* the thread whose write has raised buffer_len but has not returned yet
WriteLanding == {t \in Threads : pc[t] \in {"w_cnt", "w_out"} /\ bytes[t] >= 0}

\* C5: buffer_len is the maximum of offset + bytes_written over the writes
\* that succeeded (hwm, and the write that is between its update and its
\* return), and no step ever decreases it.
C5_HighWaterMark ==
    /\ [](buffer_len = IF WriteLanding = {}
                       THEN hwm
                       ELSE Max(hwm, offset[CHOOSE t \in WriteLanding : TRUE]))
    /\ [][buffer_len' >= buffer_len]_vars

\* a second write that ends below the mark is about to return, and buffer_len
\* is still the mark, not the sum of the bytes written
C5_Witness ==
    \E t \in Threads :
        /\ pc[t] = "w_out"
        /\ bytes[t] >= 1
        /\ snap[t].write_count >= 1
        /\ snap[t].buffer_len > offset[t]
        /\ buffer_len = snap[t].buffer_len
        /\ buffer_len < snap[t].buffer_len + bytes[t]

\* the device state is what it was when thread t took the mutex
DeviceUnchanged(t) ==
    /\ buffer = snap[t].buffer
    /\ buffer_len = snap[t].buffer_len
    /\ read_count = snap[t].read_count
    /\ write_count = snap[t].write_count

\* C6: a write at an offset >= capacity fails with -ENOSPC for every length
\* and leaves buffer_len, the storage, both counters and the offset unchanged.
C6_WriteBeyondCapacity ==
    \A t \in Threads :
        (pc[t] = "w_out" /\ snap[t].offset >= buffer_size) =>
            /\ bytes[t] = -ENOSPC
            /\ DeviceUnchanged(t)
            /\ offset[t] = snap[t].offset

\* a write of at least one byte at offset = capacity is about to return -ENOSPC
C6_Witness ==
    \E t \in Threads :
        /\ pc[t] = "w_out"
        /\ snap[t].offset = buffer_size
        /\ len[t] >= 1
        /\ buffer_len >= 1
        /\ bytes[t] = -ENOSPC

\* C7: a read at an offset >= buffer_len returns 0 for every length, with
\* nothing delivered, read_count not incremented and the offset not moved;
\* so does every read that takes the mutex before any write has succeeded.
C7_ReadAtEndOfData ==
    \A t \in Threads :
        (pc[t] = "r_out" /\ (snap[t].offset >= snap[t].buffer_len \/ snap[t].write_count = 0)) =>
            /\ bytes[t] = 0
            /\ ubuf[t] = <<>>
            /\ DeviceUnchanged(t)
            /\ offset[t] = snap[t].offset

\* a read of at least one byte at offset = buffer_len > 0 is about to return 0
C7_Witness ==
    \E t \in Threads :
        /\ pc[t] = "r_out"
        /\ buffer_len >= 1
        /\ snap[t].offset = buffer_len
        /\ len[t] >= 1
        /\ bytes[t] = 0

\* C8: a read at an offset < buffer_len whose copy succeeds returns
\* n = min(len, buffer_len - offset), delivers storage[offset .. offset+n) and
\* advances the offset by n; whatever a read delivers, also one that faults,
\* lies below buffer_len.
C8_ReadWithinValid ==
    \A t \in Threads :
        /\ (pc[t] = "r_out" /\ bytes[t] >= 0 /\ snap[t].offset < snap[t].buffer_len) =>
            LET off == snap[t].offset
                avail == snap[t].buffer_len - off
                n == IF len[t] < avail THEN len[t] ELSE avail
            IN  /\ bytes[t] = n
                /\ ubuf[t] = SubSeq(snap[t].buffer, off + 1, off + n)
                /\ offset[t] = off + n
                /\ offset[t] <= buffer_len
        /\ (pc[t] \in {"r_update", "r_out"}) =>
            /\ snap[t].offset + Len(ubuf[t]) <= Max(buffer_len, snap[t].offset)
            /\ ubuf[t] = SubSeq(snap[t].buffer, snap[t].offset + 1, snap[t].offset + Len(ubuf[t]))

\* a read that asked for more than is left past its offset is about to return what is left
C8_Witness ==
    \E t \in Threads :
        /\ pc[t] = "r_out"
        /\ snap[t].offset >= 1
        /\ bytes[t] >= 1
        /\ bytes[t] < len[t]
        /\ offset[t] = buffer_len
        /\ \E i \in 1..Len(ubuf[t]) : ubuf[t][i] # 0

\* what a call that holds the mutex has added to the counters so far
ReadCounted(t) == read_count - snap[t].read_count
WriteCounted(t) == write_count - snap[t].write_count

\* C9 as stated: the counters never decrease; a read adds 1 to read_count
\* when it returns a positive count and nothing when it fails or returns 0
\* (also for len = 0 at an offset below buffer_len), a write adds 1 to
\* write_count when it returns a count and nothing when it fails.
C9_Stated ==
    \A t \in Threads :
        /\ pc[t] = "r_out" =>
            /\ ReadCounted(t) = (IF bytes[t] > 0 THEN 1 ELSE 0)
            /\ WriteCounted(t) = 0
        /\ pc[t] = "w_out" =>
            /\ WriteCounted(t) = (IF bytes[t] >= 0 THEN 1 ELSE 0)
            /\ ReadCounted(t) = 0

\* C9 as amended: the counters never decrease and move only in the update
\* steps of read and write, by 1; a read adds 1 to read_count exactly when
\* it passed the end-of-data test and its copy did not fault, which includes
\* a read of len = 0 at an offset below buffer_len, returning 0; a read at
\* end of data, a faulted or an interrupted read adds nothing; a write adds 1
\* to write_count exactly when it returns a count, a failed write nothing.
C9_Counters ==
    /\ [](\A t \in Threads :
            /\ pc[t] = "r_out" =>
                /\ ReadCounted(t) =
                     (IF bytes[t] >= 0 /\ snap[t].offset < snap[t].buffer_len THEN 1 ELSE 0)
                /\ WriteCounted(t) = 0
            /\ pc[t] = "w_out" =>
                /\ WriteCounted(t) = (IF bytes[t] >= 0 THEN 1 ELSE 0)
                /\ ReadCounted(t) = 0)
    /\ [][/\ read_count' \in {read_count, read_count + 1}
          /\ write_count' \in {write_count, write_count + 1}
          /\ read_count' # read_count =>
                \E t \in Threads : pc[t] = "r_update" /\ pc'[t] = "r_out" /\ mutex = t
          /\ write_count' # write_count =>
                \E t \in Threads : pc[t] = "w_cnt" /\ pc'[t] = "w_out" /\ mutex = t
          /\ \A t \in Threads :
                (pc[t] \in {"r_lock", "w_lock"} /\ pc'[t] = "done") =>
                    (read_count' = read_count /\ write_count' = write_count)]_vars

\* a read of 0 bytes below buffer_len is about to return 0 and has been counted
C9_Witness ==
    \E t \in Threads :
        /\ pc[t] = "r_out"
        /\ len[t] = 0
        /\ snap[t].offset < snap[t].buffer_len
        /\ bytes[t] = 0
        /\ ReadCounted(t) = 1

\* no byte of the storage outside [off, off + n) differs from the snapshot
UnchangedOutside(t, off, n) ==
    \A i \in 1..Len(buffer) : (i <= off \/ i > off + n) => buffer[i] = snap[t].buffer[i]

\* C10 as stated: a read whose copy faults returns -EFAULT with the offset
\* and read_count as before; a write whose copy faults returns -EFAULT with
\* the storage, buffer_len, write_count and the offset as before.
C10_Stated ==
    \A t \in Threads :
        (pc[t] \in {"r_out", "w_out"} /\ bytes[t] = -EFAULT) =>
            /\ DeviceUnchanged(t)
            /\ offset[t] = snap[t].offset

\* C10 as amended: a read whose copy faults returns -EFAULT with the offset,
\* read_count and the rest of the device as before; a write whose copy
\* faults returns -EFAULT with buffer_len, both counters and the offset as
\* before and with no byte outside storage[offset .. offset+n) changed,
\* n = min(len, capacity - offset); the bytes inside that range may have been
\* overwritten.
C10_CopyFault ==
    \A t \in Threads :
        /\ (pc[t] = "r_out" /\ bytes[t] = -EFAULT) =>
            /\ DeviceUnchanged(t)
            /\ offset[t] = snap[t].offset
        /\ (pc[t] = "w_out" /\ bytes[t] = -EFAULT) =>
            /\ buffer_len = snap[t].buffer_len
            /\ read_count = snap[t].read_count
            /\ write_count = snap[t].write_count
            /\ offset[t] = snap[t].offset
            /\ UnchangedOutside(t, offset[t], Min(len[t], buffer_size - offset[t]))

\* after a read has succeeded, a write that faulted past its first byte is
\* about to return -EFAULT, with the storage changed
C10_Witness ==
    \E t \in Threads :
        /\ pc[t] = "w_out"
        /\ bytes[t] = -EFAULT
        /\ buffer # snap[t].buffer
        /\ buffer[offset[t] + 1] = ubuf[t][1]
        /\ read_count >= 1

\* a call that waits for the mutex gives up: it is at the lock and leaves it
\* without becoming the holder
GivesUp(t) == pc[t] \in {"r_lock", "w_lock"} /\ pc'[t] # pc[t] /\ mutex' # t

\* C11: a read or write whose wait for the mutex is interrupted returns
\* -ERESTARTSYS with the storage, buffer_len, both counters and its offset
\* unchanged; it does not hold the mutex, and the holder still holds it.
C11_InterruptedNoWork ==
    [][\A t \in Threads :
        GivesUp(t) =>
            /\ pc'[t] = "done"
            /\ ret'[t] = -ERESTARTSYS
            /\ UNCHANGED <<buffer, buffer_len, buffer_size, read_count, write_count, open_count>>
            /\ offset'[t] = offset[t]
            /\ mutex # NoOwner /\ mutex # t /\ mutex' = mutex
            /\ pc[mutex] \in Locked /\ pc'[mutex] = pc[mutex]
            /\ snap' = snap]_vars

\* a write has returned -ERESTARTSYS while the other thread is still in its
\* locked section
C11_Witness ==
    \E t, u \in Threads :
        /\ pc[t] = "done"
        /\ ret[t] = -ERESTARTSYS
        /\ offset[t] >= 1
        /\ mutex = u
        /\ pc[u] \in {"w_copy", "r_copy"}

\* C12: the mutex is held exactly while a call is in its locked section:
\* it is free whenever no read or write is between its lock and its unlock,
\* it is released only by its holder, at out, and the holder then returns.
C12_LockReleased ==
    /\ [](/\ (\A t \in Threads : pc[t] \notin Locked) => mutex = NoOwner
          /\ \A t \in Threads : mutex = t => pc[t] \in Locked
          /\ \A t \in Threads : pc[t] \in {"r_out", "w_out"} => mutex = t)
    /\ [][mutex' # mutex =>
            \/ /\ mutex = NoOwner
               /\ pc[mutex'] \in {"r_lock", "w_lock"}
               /\ pc'[mutex'] \in {"r_eof", "w_chk"}
            \/ /\ mutex' = NoOwner
               /\ pc[mutex] \in {"r_out", "w_out"}
               /\ pc'[mutex] = "done"]_vars

\* the mutex is free again after a call left through the fault path, and
\* after a write left through the success path
C12_Witness ==
    \E t \in Threads :
        /\ mutex = NoOwner
        /\ pc[t] = "done"
        /\ ret[t] = -EFAULT
        /\ write_count >= 1
        /\ \A u \in Threads : pc[u] \notin Locked

\* C13: open_count is the number of opens minus the number of closes: every
\* thread holds one open file (one open more than its closes) or none, and
\* open_count is the number of threads that hold one, whatever reads and
\* writes are in progress.
C13_OpenCount == open_count = Cardinality({t \in Threads : opened[t]})

\* one thread has closed and the other still holds its file, inside a locked section
C13_Witness ==
    \E t, u \in Threads :
        /\ pc[t] = "c_rc"
        /\ opened[u]
        /\ pc[u] \in Locked
        /\ open_count = 1

\* C14: open_count is never negative.
C14_OpenCountNonNegative == open_count >= 0

\* a close has just taken open_count to 0
C14_Witness ==
    \E t \in Threads :
        /\ pc[t] = "c_rc"
        /\ open_count = 0
        /\ read_count + write_count >= 1

\* the steps of open, close and the status report
Unlocked(t) ==
    \/ device_open(t)
    \/ device_release(t)
    \/ release_read_count(t)
    \/ release_write_count(t)
    \/ proc_show_len(t)
    \/ proc_show_open(t)
    \/ proc_show_read_count(t)
    \/ proc_show_write_count(t)

\* C15: open, close and the status report never wait for the mutex and never
\* take it: each of their steps can be taken whoever holds the mutex, and
\* none changes the mutex.
C15_NoLockWait ==
    /\ [](\A t \in Threads :
            /\ (pc[t] = "idle" /\ ~opened[t]) => ENABLED device_open(t)
            /\ (pc[t] = "idle" /\ opened[t]) => ENABLED device_release(t)
            /\ pc[t] = "c_rc" => ENABLED release_read_count(t)
            /\ pc[t] = "c_wc" => ENABLED release_write_count(t)
            /\ pc[t] = "idle" => ENABLED proc_show_len(t)
            /\ pc[t] = "p_open" => ENABLED proc_show_open(t)
            /\ pc[t] = "p_rc" => ENABLED proc_show_read_count(t)
            /\ pc[t] = "p_wc" => ENABLED proc_show_write_count(t))
    /\ [][(\E t \in Threads : Unlocked(t)) => mutex' = mutex]_vars

\* a thread can start a status report, an open or a close while the other
\* thread holds the mutex in the middle of a write
C15_Witness ==
    \E t, u \in Threads :
        /\ mutex = u
        /\ pc[u] = "w_len"
        /\ pc[t] = "idle"
        /\ ENABLED proc_show_len(t)
        /\ ENABLED (device_open(t) \/ device_release(t))

\* no write is between its update of buffer_len and its increment of write_count
BetweenCalls == \A t \in Threads : pc[t] \notin {"w_len", "w_cnt"}

\* at every point between two calls a non-zero buffer_len comes with a counted write
C19_BetweenCalls == BetweenCalls => (buffer_len > 0 => write_count >= 1)

\* C19: a status report never observes an intermediate state of a write: the
\* {valid_length, read_ops, write_ops} of a completed report are the values
\* at one point between two calls, so a report that shows valid_length
\* raised above 0 also shows the write that raised it counted in write_ops.
C19_Stated ==
    \A t \in Threads :
        (pc[t] = "done" /\ seen[t].len > 0) => seen[t].wc >= 1

\* C17 (as stated): until a read of the session is at end of data, every
\* read sees a remaining length buffer_len - offset no greater than the one
\* the previous read of the session saw.
C17_Stated ==
    (pc[Reader] = "r_eof" /\ sess.rem >= 1) => buffer_len - offset[Reader] <= sess.rem

\* C17: successive reads of one session, each at the offset the previous
\* read left, see a remaining length that does not increase as long as no
\* write has raised buffer_len since the previous read; a read that asks for
\* at least one byte and does not fault either delivers at least one byte
\* and moves the position forward or is at end of data and returns 0; the
\* position never passes buffer_len <= buffer_size, so at most buffer_size
\* reads deliver data before the session is at end of data.
C17_SuccessiveReads ==
    /\ (pc[Reader] = "r_eof" /\ sess.rem # -1 /\ buffer_len = sess.blen)
            => buffer_len - offset[Reader] <= sess.rem
    /\ (pc[Reader] = "r_out" /\ bytes[Reader] >= 0 /\ len[Reader] >= 1)
            => \/ bytes[Reader] >= 1 /\ offset[Reader] = snap[Reader].offset + bytes[Reader]
               \/ bytes[Reader] = 0 /\ offset[Reader] >= buffer_len
    /\ sess.moved <= sess.pos
    /\ sess.pos <= buffer_len
    /\ buffer_len <= buffer_size
    /\ (pc[Reader] = "r_eof" /\ sess.pos = buffer_len) => ENABLED (read_eof_check(Reader) /\ pc'[Reader] = "r_out")

\* the session has read data and its next read, at the advanced offset, is
\* at end of data and returns 0
C17_Witness ==
    /\ pc[Reader] = "r_out"
    /\ sess.moved >= 1
    /\ sess.pos >= 1
    /\ sess.rem = 0
    /\ bytes[Reader] = 0
    /\ len[Reader] >= 1
    /\ offset[Reader] = buffer_len

\* the debug_level that init leaves for the one given at load
Corrected(d) == IF d \in 0..3 THEN d ELSE 1

\* C16: startup validation. A buffer_size outside 1..BUFFER_SIZE_MAX makes
\* init return -EINVAL with nothing allocated, nothing registered and no
\* thread ever in the device; with a valid buffer_size init goes on, a
\* debug_level outside 0..3 becomes 1 and one inside is kept, and the
\* handle is constructed with the capacity given, zeroed storage, and
\* buffer_len, open_count, read_count and write_count all 0.
C16_StartupValidation ==
    /\ \A n \in {-1, 0, 1, BUFFER_SIZE_MAX - 1, BUFFER_SIZE_MAX, BUFFER_SIZE_MAX + 1} :
            size_invalid(n) <=> n \notin 1..BUFFER_SIZE_MAX
    /\ param.buffer_size = param0.buffer_size
    /\ param0.buffer_size \notin 1..BUFFER_SIZE_MAX =>
            /\ mpc \in {"validate", "failed"}
            /\ mpc = "failed" => init_ret = -EINVAL
            /\ mpc = "validate" => ENABLED (init_validate /\ mpc' = "failed")
            /\ held = {}
            /\ \A r \in ResourceSet : acq[r] = 0
            /\ buffer = <<>>
            /\ param = param0
            /\ \A t \in Threads : pc[t] = "idle" /\ ~opened[t]
            /\ ~stale
    /\ param0.buffer_size \in 1..BUFFER_SIZE_MAX =>
            /\ init_ret # -EINVAL
            /\ mpc = "validate" => ENABLED (init_validate /\ mpc' = "alloc_dev")
            /\ mpc # "validate" => param.debug_level = Corrected(param0.debug_level)
            /\ mpc \in {"chrdev", "cdev"} =>
                    /\ buffer_size = param0.buffer_size
                    /\ buffer = Zeros(param0.buffer_size)
                    /\ buffer_len = 0
                    /\ open_count = 0
                    /\ read_count = 0
                    /\ write_count = 0
                    /\ mutex = NoOwner
            /\ mpc = "live" => init_ret = 0 /\ {"simple_dev", "buffer", "cdev"} \subseteq held

\* loaded with debug_level 9: init has returned 0 with debug_level 1 and
\* the device has taken a write
C16_Witness ==
    /\ param0.debug_level = 9
    /\ param0.buffer_size = MaxCapacity
    /\ mpc = "live"
    /\ init_ret = 0
    /\ param.debug_level = 1
    /\ buffer_size = MaxCapacity
    /\ write_count >= 1

\* the entry points: the device node's cdev and the status file
EntryPoints == {"cdev", "simple_device", "proc_entry"}

\* C20: lifecycle ordering. An entry point is registered only while the
\* handle and its storage are allocated and initialized; every resource is
\* acquired at most once and released at most once, in reverse order of
\* acquisition; when init has failed or exit has finished everything that
\* was acquired has been released; and no operation runs against a handle
\* that is not allocated or was freed.
C20_Stated ==
    /\ (held \cap EntryPoints # {}) =>
            /\ {"simple_dev", "buffer"} \subseteq held
            /\ mpc \notin {"validate", "alloc_dev", "alloc_buffer", "fields"}
    /\ \A r \in ResourceSet : rel[r] <= acq[r] /\ acq[r] <= 1
    /\ \A i, j \in DOMAIN Resources :
            (i < j /\ Resources[j] \in held) => Resources[i] \in held
    /\ mpc \in {"failed", "gone"} => held = {} /\ acq = rel
    /\ ~stale

\* the part of C20 that holds of init and exit themselves: registration
\* follows allocation, release is in reverse order and exactly once; an
\* operation on a freed handle happens only after a failed init
C20_Ordering ==
    /\ (held \cap EntryPoints # {}) =>
            /\ {"simple_dev", "buffer"} \subseteq held
            /\ mpc \notin {"validate", "alloc_dev", "alloc_buffer", "fields"}
    /\ \A r \in ResourceSet : rel[r] <= acq[r] /\ acq[r] <= 1
    /\ \A i, j \in DOMAIN Resources :
            (i < j /\ Resources[j] \in held) => Resources[i] \in held
    /\ mpc \in {"failed", "gone"} => held = {} /\ acq = rel
    /\ stale => init_ret < 0

\* C18: every read or write call eventually returns under fair scheduling.
\* A call that holds the mutex can always take its next step, whatever the
\* other threads do; a call that waits can take the mutex when it is free
\* and can return -ERESTARTSYS when it is held; whenever a call is in
\* progress some call can take a step; and every call in progress leads to
\* its return.
C18_CallsReturn ==
    /\ [](\A t \in Threads :
            /\ (pc[t] \in Locked) => ENABLED (LockedStep(t) /\ pc'[t] # pc[t])
            /\ (pc[t] \in {"r_lock", "w_lock"} /\ mutex = NoOwner) => ENABLED LockStep(t)
            /\ (pc[t] \in {"r_lock", "w_lock"} /\ mutex # NoOwner) =>
                    ENABLED (read_interrupted(t) \/ write_interrupted(t)))
    /\ \A t \in Threads : (pc[t] \in InRead \cup InWrite) ~> (pc[t] = "done")

\* a writer waits for the mutex while a reader that holds it is about to
\* release it
C18_Witness ==
    \E t, u \in Threads :
        /\ pc[t] = "w_lock"
        /\ mutex = u
        /\ pc[u] = "r_out"
        /\ bytes[u] >= 1

====
